---- MODULE Spec2Model ----
(***************************************************************************)
(* A model of yt.py: the terminal YouTube audio player.  The state is the  *)
(* state of YTPlayerApp, of its widgets (results list, labels, thumbnail   *)
(* boxes), of the mpv engine behind AudioPlayer, and of the background     *)
(* workers in flight (catalog search, stream resolution, thumbnail         *)
(* downloads).  Every handler runs to its next await on the single event   *)
(* loop, so a handler, or the part of a worker after its await, is one     *)
(* action.                                                                 *)
(***************************************************************************)
EXTENDS Integers, Sequences, FiniteSets, TLC

VARIABLES
    search_busy,       \* YTPlayerApp._search_busy
    search_inflight,   \* number of perform_search workers awaiting the catalog
    results,           \* children of #results_list: sequence of SearchResultItem
    list_index,        \* ListView.index of #results_list (NoIndex for None)
    item_thumb,        \* per result item: state of its thumb_box / _download_thumb worker
    thumb_cache,       \* YTPlayerApp.thumb_cache: the set of video ids with cached bytes
    now_fetch,         \* _download_and_set workers awaiting the network, per video id
    now_image,         \* video id whose image #thumbnail_container shows ("" for none)
    selected_msgs,     \* ListView.Selected messages posted and not yet handled
    current_video_id,  \* YTPlayerApp.current_video_id
    now_playing_label, \* text of #now_playing_label
    state_label,       \* text of #state_label
    status_line,       \* text of #status_line
    resolving,         \* fetch_and_play workers awaiting the stream URL, per video id
    mpv_url,           \* stream loaded in mpv (<<>> when nothing is loaded)
    mpv_pause,         \* mpv.pause
    mpv_volume,        \* mpv.volume (NoVolume for None)
    progress,          \* texts of #progress_label, #elapsed_label, #remaining_label
    notice,            \* the notification raised by the latest step (<<>> for none)
    last               \* the latest step: the handler that ran and its arguments

vars == <<search_busy, search_inflight, results, list_index, item_thumb,
          thumb_cache, now_fetch, now_image, selected_msgs, current_video_id,
          now_playing_label, state_label, status_line, resolving, mpv_url,
          mpv_pause, mpv_volume, progress, notice, last>>

searchVars  == <<search_busy, search_inflight>>
listVars    == <<results, list_index, item_thumb>>
thumbVars   == <<thumb_cache, now_fetch, now_image>>
sessionVars == <<current_video_id, now_playing_label, state_label, status_line, resolving>>
engineVars  == <<mpv_url, mpv_pause>>

----------------------------------------------------------------------------
(* Bounds of the model *)

\* the catalog answers a search with at most this many entries
MaxEntries == 2
\* at most this many workers of one kind are in flight for one video id
MaxPending == 1
\* at most this many ListView.Selected messages wait in the queue
MaxMsgs == 1
\* at most this many searches are ever launched without completing
MaxSearches == 2

VideoIds == {"a", "b"}
Queries == {"", "lofi"}

----------------------------------------------------------------------------
(* Values *)

\* ListView.index is None
NoIndex == -1
\* mpv.volume is None
NoVolume == -1
\* the volume AudioPlayer.__init__ sets
InitVolume == 80
\* the upper clamp of change_volume
MaxVolume == 150
\* the step of action_volume_up / action_volume_down
VolumeStep == 5

\* a key the catalog entry does not have
Missing == "<missing>"

\* the entries yt-dlp may answer with: a dict, or None for an entry it could not extract
Entries ==
    { [kind |-> "dict", id |-> "a", title |-> "Song A", uploader |-> "Chan"],
      [kind |-> "dict", id |-> "b", title |-> Missing,  uploader |-> Missing],
      [kind |-> "none", id |-> Missing, title |-> Missing, uploader |-> Missing] }

RECURSIVE SeqsUpTo(_, _)
SeqsUpTo(S, n) ==
    IF n = 0 THEN { <<>> }
    ELSE LET shorter == SeqsUpTo(S, n - 1)
         IN  shorter \cup { Append(s, x) : s \in { t \in shorter : Len(t) = n - 1 }, x \in S }

\* what ydl.extract_info answers to a search: it raises, or it returns info
CatalogResponses ==
    { [raises |-> TRUE, entries |-> <<>>] }
      \cup { [raises |-> FALSE, entries |-> es] : es \in SeqsUpTo(Entries, MaxEntries) }

\* f"https://i.ytimg.com/vi/{vid_id}/hqdefault.jpg"
ThumbUrl(vid_id) == <<"https://i.ytimg.com/vi/", vid_id, "/hqdefault.jpg">>

\* the stream URL yt-dlp resolves for a video: info['url']
StreamUrl(video_id) == <<"stream", video_id>>

\* entry.get(key, 'Unknown')
GetOr(value, default) == IF value = Missing THEN default ELSE value

\* SearchResultItem(title, uploader, vid_id, thumb) as perform_search builds it
SearchResultItem(entry) ==
    [ title_text |-> GetOr(entry.title, "Unknown"),
      uploader   |-> GetOr(entry.uploader, "Unknown"),
      video_id   |-> entry.id,
      thumb_url  |-> ThumbUrl(entry.id) ]

\* AppendedItems with each item put in front of the list
RECURSIVE AppendedItems_prepend(_)
AppendedItems_prepend(entries) ==
    IF entries = <<>> THEN <<>>
    ELSE IF Head(entries).kind = "none" THEN <<>>
    ELSE AppendedItems_prepend(Tail(entries)) \o <<SearchResultItem(Head(entries))>>

\* the loop of perform_search: the items appended before the loop ends or raises
RECURSIVE AppendedItems(_)
AppendedItems(entries) ==
    IF entries = <<>> THEN <<>>
    ELSE IF Head(entries).kind = "none" THEN <<>>
    ELSE <<SearchResultItem(Head(entries))>> \o AppendedItems(Tail(entries))

\* the loop of perform_search raises (entry.get on None)
LoopRaises(entries) == \E i \in 1..Len(entries) : entries[i].kind = "none"

Step(op, arg) == [op |-> op, arg |-> arg]

----------------------------------------------------------------------------
Init ==
    /\ search_busy = FALSE
    /\ search_inflight = 0
    /\ results = <<>>
    /\ list_index = NoIndex
    /\ item_thumb = <<>>
    /\ thumb_cache = {}
    /\ now_fetch = [v \in VideoIds |-> 0]
    /\ now_image = ""
    /\ selected_msgs = <<>>
    /\ current_video_id = ""
    /\ now_playing_label = "Not Playing"
    /\ state_label = "Stopped"
    /\ status_line = <<>>
    /\ resolving = [v \in VideoIds |-> 0]
    /\ mpv_url = <<>>
    /\ mpv_pause = FALSE
    /\ mpv_volume = InitVolume
    /\ progress = [percent |-> 0, elapsed |-> <<0, 0>>, remaining |-> <<0, 0>>]
    /\ notice = <<>>
    /\ last = Step("init", <<>>)

----------------------------------------------------------------------------
(* Catalog search: on_input_submitted and the perform_search worker *)

\* line 251: an empty query is ignored
QueryIgnored(query) == query = ""

\* SearchRejected without the busy check
SearchRejected_never == FALSE

\* line 252: a search is refused while the busy flag is set
SearchRejected == search_busy

\* ListView.clear(): every child is removed (and with it its worker), the index is None
ListCleared ==
    /\ results' = <<>>
    /\ list_index' = NoIndex
    /\ item_thumb' = <<>>

\* run_worker(..., exclusive=True): the app's other workers of the default group
\* (fetch_and_play, _download_and_set) are cancelled; they unwind without a result
ExclusiveCancels ==
    /\ resolving' = [v \in VideoIds |-> 0]
    /\ now_fetch' = [v \in VideoIds |-> 0]

on_input_submitted(query) ==
    /\ search_inflight < MaxSearches
    /\ last' = Step("on_input_submitted", <<query>>)
    /\ IF QueryIgnored(query)
         THEN /\ notice' = <<>>
              /\ UNCHANGED <<searchVars, listVars, thumbVars, sessionVars>>
         ELSE IF SearchRejected
         THEN /\ notice' = <<"Search already in progress.">>
              /\ UNCHANGED <<searchVars, listVars, thumbVars, sessionVars>>
         ELSE /\ search_busy' = TRUE
              /\ ListCleared
              /\ status_line' = <<"Searching for", query>>
              /\ ExclusiveCancels
              /\ search_inflight' = search_inflight + 1
              /\ notice' = <<>>
              /\ UNCHANGED <<thumb_cache, now_image, current_video_id,
                             now_playing_label, state_label>>
    /\ UNCHANGED <<selected_msgs, engineVars, mpv_volume, progress>>

\* IndexAfterAppend with the index left as ListView.clear() set it
IndexAfterAppend_unchanged(before, appended) == list_index

\* ListView.append: the first child of an empty list becomes the highlighted one
IndexAfterAppend(before, appended) ==
    IF Len(before) = 0 /\ Len(appended) > 0 THEN 0 ELSE list_index

\* BusyAfterSearch with the flag cleared on the success path only
BusyAfterSearch_success_only(response) ==
    response.raises \/ LoopRaises(response.entries)

\* the finally clause of perform_search: the busy flag after the worker ends,
\* whatever the catalog answered
BusyAfterSearch(response) == FALSE

\* the part of perform_search after its await: the catalog answered with response
perform_search(response) ==
    /\ search_inflight > 0
    /\ search_inflight' = search_inflight - 1
    /\ search_busy' = BusyAfterSearch(response)
    /\ last' = Step("perform_search", <<response>>)
    /\ IF response.raises
         THEN /\ notice' = <<"Search failed">>
              /\ status_line' = <<"Search failed">>
              /\ UNCHANGED listVars
         ELSE IF response.entries = <<>>
         THEN /\ notice' = <<"No results found.">>
              /\ status_line' = <<"No results found.">>
              /\ UNCHANGED listVars
         ELSE LET appended == AppendedItems(response.entries)
              IN  /\ results' = results \o appended
                  /\ list_index' = IndexAfterAppend(results, appended)
                  /\ item_thumb' = item_thumb \o [i \in 1..Len(appended) |-> "Loading..."]
                  /\ IF LoopRaises(response.entries)
                       THEN /\ notice' = <<"Search failed">>
                            /\ status_line' = <<"Search failed">>
                       ELSE /\ notice' = <<"Search completed.">>
                            /\ status_line' = <<>>
    /\ UNCHANGED <<thumbVars, selected_msgs, current_video_id, now_playing_label,
                   state_label, resolving, engineVars, mpv_volume, progress>>

----------------------------------------------------------------------------
(* Playback session: play_video and the fetch_and_play worker *)

\* ThumbnailWidget.update_image / _download_and_set up to its await: a download
\* of url is started unless url is empty
UpdateImageFetches(url) == url # <<>>

\* the bound on workers in flight allows one more play_video(item)
CanPlay(item) ==
    /\ resolving[item.video_id] < MaxPending
    /\ now_fetch[item.video_id] < MaxPending

play_video(item) ==
    /\ current_video_id' = item.video_id
    /\ now_playing_label' = item.title_text
    /\ now_fetch' = IF UpdateImageFetches(item.thumb_url)
                      THEN [now_fetch EXCEPT ![item.video_id] = @ + 1]
                      ELSE now_fetch
    /\ state_label' = "Loading"
    /\ status_line' = <<>>
    /\ resolving' = [resolving EXCEPT ![item.video_id] = @ + 1]

\* on_list_view_selected: the oldest ListView.Selected message is handled
on_list_view_selected ==
    /\ selected_msgs # <<>>
    /\ CanPlay(Head(selected_msgs))
    /\ selected_msgs' = Tail(selected_msgs)
    /\ play_video(Head(selected_msgs))
    /\ notice' = <<>>
    /\ last' = Step("on_list_view_selected", <<Head(selected_msgs).video_id>>)
    /\ UNCHANGED <<searchVars, listVars, thumb_cache, now_image, engineVars,
                   mpv_volume, progress>>

\* AudioPlayer.play(url)
PlayerPlay(url) == mpv_url' = url

\* line 336-339: what fetch_and_play does with the stream URL it resolved
ApplyResolved(video_id) ==
    /\ PlayerPlay(StreamUrl(video_id))
    /\ state_label' = "Playing"
    /\ status_line' = <<>>

\* the part of fetch_and_play after its await, the stream URL resolved
fetch_and_play_ok(video_id) ==
    /\ resolving[video_id] > 0
    /\ resolving' = [resolving EXCEPT ![video_id] = @ - 1]
    /\ ApplyResolved(video_id)
    /\ notice' = <<>>
    /\ last' = Step("fetch_and_play_ok", <<video_id>>)
    /\ UNCHANGED <<searchVars, listVars, thumbVars, selected_msgs, current_video_id,
                   now_playing_label, mpv_pause, mpv_volume, progress>>

\* the part of fetch_and_play after its await, extract_info (or info['url']) raised
fetch_and_play_raises(video_id) ==
    /\ resolving[video_id] > 0
    /\ resolving' = [resolving EXCEPT ![video_id] = @ - 1]
    /\ notice' = <<"Error fetching stream", video_id>>
    /\ state_label' = "Error"
    /\ status_line' = <<"error", video_id>>
    /\ last' = Step("fetch_and_play_raises", <<video_id>>)
    /\ UNCHANGED <<searchVars, listVars, thumbVars, selected_msgs, current_video_id,
                   now_playing_label, engineVars, mpv_volume, progress>>

----------------------------------------------------------------------------
(* Controls *)

\* AudioPlayer.pause(): toggles mpv.pause and returns it
PlayerPause == ~mpv_pause

toggle_play_pause ==
    /\ mpv_pause' = PlayerPause
    /\ state_label' = IF mpv_pause' THEN "Paused" ELSE "Playing"
    /\ notice' = <<>>
    /\ last' = Step("toggle_play_pause", <<>>)
    /\ UNCHANGED <<searchVars, listVars, thumbVars, selected_msgs, current_video_id,
                   now_playing_label, status_line, resolving, mpv_url, mpv_volume,
                   progress>>

\* ProgressZero with only the percent label reset
ProgressZero_percent_only ==
    [percent |-> 0, elapsed |-> progress.elapsed, remaining |-> progress.remaining]

\* the labels stop_playback resets: "0%", "00:00", "-00:00"
ProgressZero == [percent |-> 0, elapsed |-> <<0, 0>>, remaining |-> <<0, 0>>]

\* the text stop_playback writes to #state_label
StoppedLabel == "Stopped"

stop_playback ==
    /\ mpv_url' = <<>>
    /\ progress' = ProgressZero
    /\ now_playing_label' = "Stopped"
    /\ state_label' = StoppedLabel
    /\ notice' = <<>>
    /\ last' = Step("stop_playback", <<state_label, progress.percent>>)
    /\ UNCHANGED <<searchVars, listVars, thumbVars, selected_msgs, current_video_id,
                   status_line, resolving, mpv_pause, mpv_volume>>

\* ListView.action_select_cursor: posts Selected for the highlighted child, if any
SelectCursor(index) ==
    IF index = NoIndex THEN selected_msgs ELSE Append(selected_msgs, results[index + 1])

play_selected ==
    /\ Len(selected_msgs) < MaxMsgs
    /\ LET index == IF list_index = NoIndex /\ results # <<>> THEN 0 ELSE list_index
       IN  /\ list_index' = index
           /\ selected_msgs' = SelectCursor(index)
    /\ notice' = <<>>
    /\ last' = Step("play_selected", <<>>)
    /\ UNCHANGED <<searchVars, results, item_thumb, thumbVars, sessionVars, engineVars,
                   mpv_volume, progress>>

Max(x, y) == IF x >= y THEN x ELSE y
Min(x, y) == IF x <= y THEN x ELSE y

\* NewIndex wrapping around at the ends of the list
NewIndex_wraps(delta) ==
    LET idx == IF list_index = NoIndex THEN 0 ELSE list_index
    IN  (idx + delta) % Len(results)

\* line 411-412: the index shift_selection moves to
NewIndex(delta) ==
    LET idx == IF list_index = NoIndex THEN 0 ELSE list_index
    IN  Max(0, Min(Len(results) - 1, idx + delta))

\* line 415-418: shift_selection plays the item it moved to
Autoplays == TRUE

shift_selection(delta) ==
    /\ Len(selected_msgs) < MaxMsgs
    /\ last' = Step("shift_selection", <<delta, list_index>>)
    /\ notice' = <<>>
    /\ IF results # <<>>
         THEN LET new_idx == NewIndex(delta)
              IN  /\ CanPlay(results[new_idx + 1])
                  /\ list_index' = new_idx
                  /\ selected_msgs' = SelectCursor(new_idx)
                  /\ IF Autoplays
                       THEN play_video(results[new_idx + 1])
                       ELSE UNCHANGED <<sessionVars, now_fetch>>
         ELSE UNCHANGED <<list_index, selected_msgs, sessionVars, now_fetch>>
    /\ UNCHANGED <<searchVars, results, item_thumb, thumb_cache, now_image, engineVars,
                   mpv_volume, progress>>

next_item == shift_selection(1)

prev_item == shift_selection(-1)

----------------------------------------------------------------------------
(* Thumbnails: SearchResultItem._download_thumb and ThumbnailWidget._download_and_set *)

\* what requests.get answers: status 200, another status, or it raises
ThumbResponses == {"200", "404", "raises"}

\* line 88-89: _download_thumb asks the network only when the cache has no bytes for the id
ThumbCached(video_id) == video_id \in thumb_cache

\* CacheAfter storing an entry whatever the response was
CacheAfter_any_response(video_id, response) == thumb_cache \cup {video_id}

\* line 92-94: the cache after the response to _download_thumb's request
CacheAfter(video_id, response) ==
    IF response = "200" THEN thumb_cache \cup {video_id} ELSE thumb_cache

\* _download_thumb up to its await, for the i-th result item (mounted, worker not yet run)
download_thumb_start(i) ==
    /\ i \in 1..Len(results)
    /\ item_thumb[i] = "Loading..."
    /\ IF results[i].thumb_url = <<>>
         THEN /\ item_thumb' = [item_thumb EXCEPT ![i] = "No thumb"]
              /\ last' = Step("download_thumb_start", <<results[i].video_id, "no url">>)
         ELSE IF ThumbCached(results[i].video_id)
         THEN /\ item_thumb' = [item_thumb EXCEPT ![i] = "image"]
              /\ last' = Step("download_thumb_start", <<results[i].video_id, "cached">>)
         ELSE /\ item_thumb' = [item_thumb EXCEPT ![i] = "fetching"]
              /\ last' = Step("download_thumb_start", <<results[i].video_id, "request">>)
    /\ notice' = <<>>
    /\ UNCHANGED <<searchVars, results, list_index, thumbVars, selected_msgs, sessionVars,
                   engineVars, mpv_volume, progress>>

\* _download_thumb after its await: requests.get answered the i-th item's request
download_thumb_done(i, response) ==
    /\ i \in 1..Len(results)
    /\ item_thumb[i] = "fetching"
    /\ thumb_cache' = CacheAfter(results[i].video_id, response)
    /\ item_thumb' = [item_thumb EXCEPT ![i] = IF response = "200" THEN "image" ELSE "No thumb"]
    /\ notice' = <<>>
    /\ last' = Step("download_thumb_done", <<results[i].video_id, response>>)
    /\ UNCHANGED <<searchVars, results, list_index, now_fetch, now_image, selected_msgs,
                   sessionVars, engineVars, mpv_volume, progress>>

\* _download_and_set after its await: requests.get answered the download for video_id
download_and_set_done(video_id, response) ==
    /\ now_fetch[video_id] > 0
    /\ now_fetch' = [now_fetch EXCEPT ![video_id] = @ - 1]
    /\ now_image' = IF response = "200" THEN video_id ELSE now_image
    /\ notice' = <<>>
    /\ last' = Step("download_and_set_done", <<video_id, response>>)
    /\ UNCHANGED <<searchVars, listVars, thumb_cache, selected_msgs, sessionVars,
                   engineVars, mpv_volume, progress>>

----------------------------------------------------------------------------
(* Volume: AudioPlayer.change_volume, action_volume_up, action_volume_down *)

\* the deltas change_volume is tried with
Deltas == {-200, -7, -5, -1, 0, 1, 5, 7, 200}

\* line 55: self.mpv.volume or 0
CurrentVolume == IF mpv_volume = NoVolume THEN 0 ELSE mpv_volume

\* NewVolume without the lower clamp
NewVolume_no_floor(current, delta) == Min(MaxVolume, current + delta)

\* line 56: max(0, min(150, current + delta))
NewVolume(current, delta) == Max(0, Min(MaxVolume, current + delta))

\* AudioPlayer.change_volume(delta): writes the new level back and returns it
change_volume(delta) ==
    /\ mpv_volume' = NewVolume(CurrentVolume, delta)
    /\ notice' = <<>>
    /\ last' = Step("change_volume", <<delta, mpv_volume, mpv_volume'>>)
    /\ UNCHANGED <<searchVars, listVars, thumbVars, selected_msgs, sessionVars,
                   engineVars, progress>>

action_volume(delta) ==
    /\ mpv_volume' = NewVolume(CurrentVolume, delta)
    /\ notice' = <<"Volume", mpv_volume'>>
    /\ last' = Step("action_volume", <<delta, mpv_volume, mpv_volume'>>)
    /\ UNCHANGED <<searchVars, listVars, thumbVars, selected_msgs, sessionVars,
                   engineVars, progress>>

action_volume_up == action_volume(VolumeStep)

action_volume_down == action_volume(-VolumeStep)

\* the engine stops reporting its volume: mpv.volume reads None
volume_unknown ==
    /\ mpv_volume # NoVolume
    /\ mpv_volume' = NoVolume
    /\ notice' = <<>>
    /\ last' = Step("volume_unknown", <<>>)
    /\ UNCHANGED <<searchVars, listVars, thumbVars, selected_msgs, sessionVars,
                   engineVars, progress>>

----------------------------------------------------------------------------
(* Progress: update_progress, run every 0.5 s *)

\* the largest position and duration (seconds) the engine reports
MaxPosition == 6
MaxDuration == 6

\* what mpv.time_pos reads: None (<<>>) or a position
TimePosReadings == { <<>> } \cup { <<p>> : p \in 0..MaxPosition }

\* what mpv.duration reads: None (<<>>), a non-positive value, or a duration
DurationReadings == { <<>> } \cup { <<d>> : d \in -1..MaxDuration }

\* mpv.core_idle: nothing is loaded, or the core is paused
CoreIdle == mpv_url = <<>> \/ mpv_pause

\* AudioPlayer.get_time_pos: self.mpv.time_pos or 0
get_time_pos(time_pos) == IF time_pos = <<>> THEN 0 ELSE time_pos[1]

\* AudioPlayer.get_duration: self.mpv.duration or 1
get_duration(duration) == IF duration = <<>> \/ duration = <<0>> THEN 1 ELSE duration[1]

\* line 446-447: if not total or total <= 0: total = max(curr, 1)
TotalUsed(curr, total) == IF total = 0 \/ total <= 0 THEN Max(curr, 1) ELSE total

\* line 449: int((curr / total) * 100)
Percent(curr, total) == (curr * 100) \div total

\* _fmt_time: <<m, s>> stands for "MM:SS", <<h, m, s>> for "H:MM:SS"
fmt_time(seconds) ==
    IF seconds < 0 THEN <<0, 0>>
    ELSE LET m0 == seconds \div 60
             s  == seconds % 60
             h  == m0 \div 60
             m  == m0 % 60
         IN  IF h # 0 THEN <<h, m, s>> ELSE <<m, s>>

\* line 444-454: the labels update_progress writes for the engine's readings
ProgressShown(time_pos, duration) ==
    LET curr  == get_time_pos(time_pos)
        total == TotalUsed(curr, get_duration(duration))
    IN  IF total > 0
          THEN [percent   |-> Percent(curr, total),
                elapsed   |-> fmt_time(curr),
                remaining |-> fmt_time(Max(total - curr, 0))]
          ELSE progress

update_progress(time_pos, duration) ==
    /\ progress' = IF CoreIdle THEN progress ELSE ProgressShown(time_pos, duration)
    /\ notice' = <<>>
    /\ last' = Step("update_progress", <<time_pos, duration, CoreIdle>>)
    /\ UNCHANGED <<searchVars, listVars, thumbVars, selected_msgs, sessionVars,
                   engineVars, mpv_volume>>

----------------------------------------------------------------------------
(* The application.  Spec: search, the results list and its cursor, the    *)
(* playback session and the engine.  The result items' own thumbnail       *)
(* workers change only item_thumb and thumb_cache; they are part of        *)
(* SpecThumb and SpecCache.                                                *)

Next ==
    \/ \E query \in Queries : on_input_submitted(query)
    \/ \E response \in CatalogResponses : perform_search(response)
    \/ on_list_view_selected
    \/ \E video_id \in VideoIds : fetch_and_play_ok(video_id)
    \/ \E video_id \in VideoIds : fetch_and_play_raises(video_id)
    \/ toggle_play_pause
    \/ stop_playback
    \/ play_selected
    \/ next_item
    \/ prev_item
    \/ \E video_id \in VideoIds, response \in ThumbResponses :
          download_and_set_done(video_id, response)

Spec == Init /\ [][Next]_vars

(* The results list: searching, moving the cursor and selecting.  Pausing,  *)
(* stopping and a failing stream resolution are left out: they change      *)
(* neither the search state, the list, the cursor nor the workers.         *)
NextList ==
    \/ \E query \in Queries : on_input_submitted(query)
    \/ \E response \in CatalogResponses : perform_search(response)
    \/ on_list_view_selected
    \/ \E video_id \in VideoIds : fetch_and_play_ok(video_id)
    \/ play_selected
    \/ next_item
    \/ prev_item
    \/ \E video_id \in VideoIds, response \in ThumbResponses :
          download_and_set_done(video_id, response)

SpecList == Init /\ [][NextList]_vars

(* Selecting and stopping: the application without the pause key *)
NextSelect ==
    \/ \E query \in Queries : on_input_submitted(query)
    \/ \E response \in CatalogResponses : perform_search(response)
    \/ on_list_view_selected
    \/ \E video_id \in VideoIds : fetch_and_play_ok(video_id)
    \/ \E video_id \in VideoIds : fetch_and_play_raises(video_id)
    \/ stop_playback
    \/ play_selected
    \/ next_item
    \/ prev_item
    \/ \E video_id \in VideoIds, response \in ThumbResponses :
          download_and_set_done(video_id, response)

SpecSelect == Init /\ [][NextSelect]_vars

\* every await of a search worker ends: the catalog answers or the call raises, and
\* the event loop then runs the rest of perform_search
SearchEnds == \E response \in CatalogResponses : perform_search(response)

SpecListFair == SpecList /\ WF_vars(SearchEnds)

(* Thumbnails: searching, selecting, and every thumbnail worker *)
NextThumb ==
    \/ \E query \in Queries : on_input_submitted(query)
    \/ \E response \in CatalogResponses : perform_search(response)
    \/ on_list_view_selected
    \/ \E video_id \in VideoIds : fetch_and_play_ok(video_id)
    \/ \E video_id \in VideoIds : fetch_and_play_raises(video_id)
    \/ play_selected
    \/ \E i \in 1..MaxEntries : download_thumb_start(i)
    \/ \E i \in 1..MaxEntries, response \in ThumbResponses : download_thumb_done(i, response)
    \/ \E video_id \in VideoIds, response \in ThumbResponses :
          download_and_set_done(video_id, response)

SpecThumb == Init /\ [][NextThumb]_vars

(* The thumbnail cache: the only code that reads or writes thumb_cache, the *)
(* result items' _download_thumb workers, and the searches that mount items *)
NextCache ==
    \/ \E query \in Queries : on_input_submitted(query)
    \/ \E response \in CatalogResponses : perform_search(response)
    \/ \E i \in 1..MaxEntries : download_thumb_start(i)
    \/ \E i \in 1..MaxEntries, response \in ThumbResponses : download_thumb_done(i, response)

SpecCache == Init /\ [][NextCache]_vars

(* Volume: the volume keys, change_volume with any delta, next to pause and stop *)
NextVol ==
    \/ action_volume_up
    \/ action_volume_down
    \/ \E delta \in Deltas : change_volume(delta)
    \/ volume_unknown
    \/ toggle_play_pause
    \/ stop_playback

SpecVol == Init /\ [][NextVol]_vars

(* Progress: the timer's update_progress on every reading of the engine.    *)
(* It starts in the state Spec reaches by searching "lofi", the catalog     *)
(* answering with the entry of video a, play_selected, the Selected message *)
(* handled, the stream resolved and the thumbnail downloaded.               *)
InitTick ==
    /\ search_busy = FALSE
    /\ search_inflight = 0
    /\ results = <<SearchResultItem([kind |-> "dict", id |-> "a", title |-> "Song A",
                                     uploader |-> "Chan"])>>
    /\ list_index = 0
    /\ item_thumb = <<"Loading...">>
    /\ thumb_cache = {}
    /\ now_fetch = [v \in VideoIds |-> 0]
    /\ now_image = "a"
    /\ selected_msgs = <<>>
    /\ current_video_id = "a"
    /\ now_playing_label = "Song A"
    /\ state_label = "Playing"
    /\ status_line = <<>>
    /\ resolving = [v \in VideoIds |-> 0]
    /\ mpv_url = StreamUrl("a")
    /\ mpv_pause = FALSE
    /\ mpv_volume = InitVolume
    /\ progress = [percent |-> 0, elapsed |-> <<0, 0>>, remaining |-> <<0, 0>>]
    /\ notice = <<>>
    /\ last = Step("download_and_set_done", <<"a", "200">>)

NextTick ==
    \/ \E time_pos \in TimePosReadings, duration \in DurationReadings :
          update_progress(time_pos, duration)
    \/ toggle_play_pause
    \/ stop_playback
    \/ play_selected
    \/ on_list_view_selected
    \/ \E video_id \in VideoIds : fetch_and_play_ok(video_id)
    \/ \E video_id \in VideoIds, response \in ThumbResponses :
          download_and_set_done(video_id, response)

SpecTick == InitTick /\ [][NextTick]_vars

----------------------------------------------------------------------------
(* Properties *)

\* everything but the notification and the record of the latest step
programVars == <<searchVars, listVars, thumbVars, selected_msgs, sessionVars,
                 engineVars, mpv_volume, progress>>

\* C1: a stream resolved for a video that is no longer the current selection is
\* discarded: it does not call mpv.play and it leaves the state label as it was.
C1_StaleResolveDiscarded ==
    [][ (last'.op = "fetch_and_play_ok" /\ last'.arg[1] # current_video_id)
          => (mpv_url' = mpv_url /\ state_label' = state_label) ]_vars

\* C2: at most one catalog search is in flight, and a non-empty query submitted while
\* the busy flag is set starts no search and changes nothing but the notification,
\* which is the rejection notice.
C2_SingleFlight ==
    /\ [](search_inflight <= 1)
    /\ [][ (last'.op = "on_input_submitted" /\ last'.arg # <<"">> /\ search_busy)
             => (/\ notice' = <<"Search already in progress.">>
                 /\ UNCHANGED programVars) ]_vars

\* C2 witness: a submit was rejected while a search was in flight
C2_Rejected ==
    /\ last = Step("on_input_submitted", <<"lofi">>)
    /\ notice = <<"Search already in progress.">>
    /\ search_busy
    /\ search_inflight = 1

\* C3: whenever the busy flag is set it is eventually cleared, however the search ends
\* (so a later submit is accepted again).
C3_BusyClears == search_busy ~> ~search_busy

\* C3 witness: a search that failed has cleared the busy flag
C3_ClearedAfterFailure ==
    /\ last.op = "perform_search"
    /\ last.arg[1].raises
    /\ ~search_busy
    /\ status_line = <<"Search failed">>

\* C4: the cursor is always within [0, len-1]; next/prev on a non-empty list move it
\* by one, clamped with no wraparound (at a boundary it stays), and start playback of
\* the item at the resulting index.
C4_CursorClamped ==
    /\ [](list_index = NoIndex \/ list_index \in 0..(Len(results) - 1))
    /\ [][ (last'.op = "shift_selection" /\ results # <<>>)
             => LET delta  == last'.arg[1]
                    idx    == IF list_index = NoIndex THEN 0 ELSE list_index
                    target == IF idx + delta < 0 THEN 0
                              ELSE IF idx + delta > Len(results) - 1 THEN Len(results) - 1
                              ELSE idx + delta
                    item   == results[target + 1]
                IN  /\ results' = results
                    /\ list_index' = target
                    /\ current_video_id' = item.video_id
                    /\ state_label' = "Loading"
                    /\ resolving'[item.video_id] = resolving[item.video_id] + 1 ]_vars

\* C4 witness: next_item at the last index of a list of several items reselected the
\* last item
C4_NextAtLast ==
    /\ Len(results) >= 2
    /\ last = Step("shift_selection", <<1, Len(results) - 1>>)
    /\ list_index = Len(results) - 1
    /\ current_video_id = results[Len(results)].video_id
    /\ state_label = "Loading"

\* C10: a search that completed shows exactly the catalog's entries as items, the
\* i-th item built from the i-th entry.
C10_ResultsInCatalogOrder ==
    notice = <<"Search completed.">>
      => /\ last.op = "perform_search"
         /\ LET entries == last.arg[1].entries
            IN  /\ Len(results) = Len(entries)
                /\ \A i \in 1..Len(entries) :
                      /\ results[i].video_id = entries[i].id
                      /\ results[i] = SearchResultItem(entries[i])

\* C10 witness: a search completed with MaxEntries entries of different videos
C10_FullList ==
    /\ notice = <<"Search completed.">>
    /\ Len(results) = MaxEntries
    /\ results[1].video_id # results[2].video_id

\* C5: once the thumbnail of a video is in the cache, no step starts a download of
\* that video's thumbnail, neither for a result item nor for the now-playing image.
C5_NoFetchOnceCached ==
    [][ \A v \in VideoIds :
          v \in thumb_cache
            => /\ now_fetch'[v] <= now_fetch[v]
               /\ last' # Step("download_thumb_start", <<v, "request">>) ]_vars

\* C6: the cache gains an entry only when a request is answered with status 200, a
\* failed request leaves the cache as it was, and a result item whose video has no
\* cache entry asks the network (again).
C6_NegativeNotCached ==
    [][ /\ thumb_cache' # thumb_cache
             => /\ last'.op = "download_thumb_done"
                /\ last'.arg[2] = "200"
                /\ thumb_cache' = thumb_cache \cup {last'.arg[1]}
        /\ (last'.op = "download_thumb_done" /\ last'.arg[2] # "200")
             => thumb_cache' = thumb_cache
        /\ (last'.op = "download_thumb_start" /\ last'.arg[1] \notin thumb_cache)
             => last'.arg[2] = "request" ]_vars

\* C6 witness: the request of one result item failed, the cache has no entry for the
\* video, and another item of the same video has just asked the network again
C6_RetryAfterFailure ==
    \E i, j \in 1..Len(results) :
        /\ i # j
        /\ results[i].video_id = results[j].video_id
        /\ item_thumb[i] = "No thumb"
        /\ item_thumb[j] = "fetching"
        /\ results[j].video_id \notin thumb_cache
        /\ last = Step("download_thumb_start", <<results[j].video_id, "request">>)

\* the steps that change the volume
VolumeOps == {"change_volume", "action_volume"}

\* C7: a volume change by delta from level v (an unknown level read as 0) writes and
\* returns v + delta clamped to [0, 150]; the volume is always unknown or within
\* [0, 150]; a volume change changes nothing of the session.
C7_VolumeClamped ==
    /\ [](mpv_volume = NoVolume \/ mpv_volume \in 0..150)
    /\ [](last.op \in VolumeOps
            => LET delta  == last.arg[1]
                   before == IF last.arg[2] = NoVolume THEN 0 ELSE last.arg[2]
                   sum    == before + delta
                   clamp  == IF sum < 0 THEN 0 ELSE IF sum > 150 THEN 150 ELSE sum
               IN  /\ last.arg[3] = clamp
                   /\ mpv_volume = clamp)
    /\ [][ last'.op \in VolumeOps
             => UNCHANGED <<searchVars, listVars, thumbVars, selected_msgs, sessionVars,
                            engineVars, progress>> ]_vars

\* C7 witness: volume up at the top level, while the session is paused
C7_ClampedAtTop ==
    /\ last = Step("action_volume", <<5, 150, 150>>)
    /\ mpv_volume = 150
    /\ state_label = "Paused"

\* C8: when the engine's duration is missing or <= 0, update_progress uses
\* max(position, 1) as the duration and shows floor(position / max(position, 1) * 100).
C8_DegenerateDuration ==
    (/\ last.op = "update_progress"
     /\ ~last.arg[3]
     /\ (last.arg[2] = <<>> \/ last.arg[2][1] <= 0))
      => LET position == IF last.arg[1] = <<>> THEN 0 ELSE last.arg[1][1]
             duration == IF position >= 1 THEN position ELSE 1
         IN  /\ progress.percent = (position * 100) \div duration
             /\ progress.remaining = <<0, duration - position>>

\* C9: stop_playback while the state label is "Playing" stops the engine, sets the
\* label to "Stopped" and resets percent, elapsed and remaining to "0%", "00:00", "-00:00".
C9_StopResets ==
    (last.op = "stop_playback" /\ last.arg[1] = "Playing")
      => /\ mpv_url = <<>>
         /\ state_label = "Stopped"
         /\ progress = [percent |-> 0, elapsed |-> <<0, 0>>, remaining |-> <<0, 0>>]

\* C9 witness: playback was stopped while playing with a progress above 0%
C9_StoppedWhilePlaying ==
    /\ last.op = "stop_playback"
    /\ last.arg[1] = "Playing"
    /\ last.arg[2] > 0
    /\ state_label = "Stopped"

\* the state labels of a session that holds an item: Loading, Playing, Paused, Errored
ActiveLabels == {"Loading", "Playing", "Paused", "Error"}

\* C11: the session holds a current item exactly when its state is Loading, Playing,
\* Paused or Errored; in particular it holds none once stop_playback made it Stopped.
C11_ItemIffActive ==
    (current_video_id # "") <=> (state_label \in ActiveLabels)

\* C12: the cursor is within the bounds of the results list, and it is None exactly
\* when the list is empty.
C12_CursorInBounds ==
    /\ (list_index = NoIndex) <=> (results = <<>>)
    /\ list_index # NoIndex => list_index \in 0..(Len(results) - 1)

\* C12 witness: after an item was selected, a later search published a new list and
\* the cursor is on its first item
C12_Republished ==
    /\ last.op = "perform_search"
    /\ current_video_id # ""
    /\ Len(results) = MaxEntries
    /\ list_index = 0

\* C13: the state label agrees with the engine's pause flag: "Playing" only while
\* mpv is not paused, "Paused" only while it is.
C13_LabelTracksEngine ==
    /\ state_label = "Playing" => ~mpv_pause
    /\ state_label = "Paused" => mpv_pause

\* C14: toggle_play_pause while nothing was ever selected (Idle) or while the session
\* is Loading changes neither the engine's pause flag nor the state label.
C14_ToggleNoOpWhenIdleOrLoading ==
    [][ (/\ last'.op = "toggle_play_pause"
         /\ (state_label = "Loading"
               \/ (state_label = "Stopped" /\ current_video_id = "")))
          => (mpv_pause' = mpv_pause /\ state_label' = state_label) ]_vars

\* C15: a failed stream resolution of a video that is no longer the current selection
\* neither sets the state label to "Error" nor writes the error message.
C15_StaleFailureDiscarded ==
    [][ (last'.op = "fetch_and_play_raises" /\ last'.arg[1] # current_video_id)
          => (state_label' = state_label /\ status_line' = status_line) ]_vars

\* C16: no step other than the resolution's own completion (fetch_and_play_ok or
\* fetch_and_play_raises for that video) takes a pending stream resolution out of
\* flight: a later selection or search submission does not cancel it.
C16_ResolutionNeverCancelled ==
    [][ \A v \in VideoIds :
          resolving'[v] < resolving[v]
            => (/\ last'.op \in {"fetch_and_play_ok", "fetch_and_play_raises"}
                /\ last'.arg[1] = v) ]_vars

\* C17: a search that ended in failure leaves the results list empty.
C17_FailedSearchPublishesNothing ==
    (last.op = "perform_search" /\ notice = <<"Search failed">>) => results = <<>>

RECURSIVE SumOf(_, _)
\* the sum of f over the set S
SumOf(f, S) ==
    IF S = {} THEN 0
    ELSE LET x == CHOOSE y \in S : TRUE IN f[x] + SumOf(f, S \ {x})

\* selections under way: stream resolutions in flight plus ListView.Selected messages
\* whose handler will start one
SelectionsStarted == SumOf(resolving, VideoIds) + Len(selected_msgs)

\* C18: a next_item / prev_item on a non-empty results list starts exactly one
\* selection, hence one stream resolution and one mpv.play.
C18_OneSelectionPerShift ==
    [][ (last'.op = "shift_selection" /\ results # <<>>)
          => SelectionsStarted' = SelectionsStarted + 1 ]_vars

\* C19: a stream that resolves while the session is Stopped (stop_playback ran after
\* the selection and nothing was selected since) does not call mpv.play and leaves
\* the state label "Stopped".
C19_StopIsFinal ==
    [][ (last'.op = "fetch_and_play_ok" /\ state_label = "Stopped")
          => (mpv_url' = mpv_url /\ state_label' = "Stopped") ]_vars

\* C20: a now-playing thumbnail download that completes for a video other than the
\* current selection does not replace the displayed image.
C20_ThumbnailOfCurrentItem ==
    [][ (last'.op = "download_and_set_done" /\ last'.arg[1] # current_video_id)
          => now_image' = now_image ]_vars

====
